---------------------------- MODULE Spec2Model ----------------------------
(***************************************************************************)
(* Model of server/src/utils/textExtractor.js: the MIME dispatcher         *)
(* extractTextFromFile and its five adapters (PDF, DOCX, TXT, PPTX, image  *)
(* OCR).  One extraction call runs at a time; the calls share no state.    *)
(* Strings are sequences of one-character strings, so that includes, trim  *)
(* and template literals are computed on the characters.                   *)
(***************************************************************************)
EXTENDS Integers, Sequences, FiniteSets, TLC

(* ------------------------- string literals ----------------------------- *)
MIME_PDF == <<"a","p","p","l","i","c","a","t","i","o","n","/","p","d","f">>
MIME_DOCX == <<"a","p","p","l","i","c","a","t","i","o","n","/","v","n","d",".","o","p","e","n","x","m","l","f","o","r","m","a","t","s","-","o","f","f","i","c","e","d","o","c","u","m","e","n","t",".","w","o","r","d","p","r","o","c","e","s","s","i","n","g","m","l",".","d","o","c","u","m","e","n","t">>
MIME_TXT == <<"t","e","x","t","/","p","l","a","i","n">>
MIME_PPTX == <<"a","p","p","l","i","c","a","t","i","o","n","/","v","n","d",".","o","p","e","n","x","m","l","f","o","r","m","a","t","s","-","o","f","f","i","c","e","d","o","c","u","m","e","n","t",".","p","r","e","s","e","n","t","a","t","i","o","n","m","l",".","p","r","e","s","e","n","t","a","t","i","o","n">>
MIME_JPEG == <<"i","m","a","g","e","/","j","p","e","g">>
MIME_PNG == <<"i","m","a","g","e","/","p","n","g">>
MIME_GIF == <<"i","m","a","g","e","/","g","i","f">>
MIME_WEBP == <<"i","m","a","g","e","/","w","e","b","p">>
MIME_ZIP == <<"a","p","p","l","i","c","a","t","i","o","n","/","z","i","p">>
MIME_BMP == <<"i","m","a","g","e","/","b","m","p">>
MIME_PDF_UPPER == <<"a","p","p","l","i","c","a","t","i","o","n","/","P","D","F">>
UNSUPPORTED_MIME_PREFIX == <<"U","n","s","u","p","p","o","r","t","e","d"," ","M","I","M","E"," ","t","y","p","e",":"," ">>
FAILED_PREFIX == <<"F","a","i","l","e","d"," ","t","o"," ","e","x","t","r","a","c","t"," ","t","e","x","t",":"," ">>
PDF_LARGE == <<"[","L","a","r","g","e"," ","P","D","F"," ","u","p","l","o","a","d","e","d"," ","-"," ","t","e","x","t"," ","e","x","t","r","a","c","t","i","o","n"," ","m","a","y"," ","b","e"," ","l","i","m","i","t","e","d"," ","i","n"," ","s","e","r","v","e","r","l","e","s","s"," ","e","n","v","i","r","o","n","m","e","n","t","."," ","P","l","e","a","s","e"," ","t","r","y"," ","a"," ","s","m","a","l","l","e","r"," ","f","i","l","e"," ","o","r"," ","d","e","s","c","r","i","b","e"," ","t","h","e"," ","c","o","n","t","e","n","t"," ","m","a","n","u","a","l","l","y",".","]">>
PDF_UNSUPPORTED_SHAPE == <<"U","n","s","u","p","p","o","r","t","e","d"," ","p","d","f","-","p","a","r","s","e"," ","e","x","p","o","r","t"," ","s","h","a","p","e">>
PDF_NO_TEXT == <<"[","P","D","F"," ","p","r","o","c","e","s","s","e","d"," ","-"," ","n","o"," ","t","e","x","t"," ","c","o","n","t","e","n","t"," ","f","o","u","n","d","]">>
PDF_TIMED_OUT == <<"[","P","D","F"," ","u","p","l","o","a","d","e","d"," ","-"," ","e","x","t","r","a","c","t","i","o","n"," ","t","i","m","e","d"," ","o","u","t"," ","i","n"," ","s","e","r","v","e","r","l","e","s","s"," ","e","n","v","i","r","o","n","m","e","n","t","]">>
PDF_MEMORY == <<"[","P","D","F"," ","u","p","l","o","a","d","e","d"," ","-"," ","e","x","t","r","a","c","t","i","o","n"," ","f","a","i","l","e","d"," ","d","u","e"," ","t","o"," ","m","e","m","o","r","y"," ","l","i","m","i","t","s","]">>
PDF_PASSWORD == <<"[","P","D","F"," ","u","p","l","o","a","d","e","d"," ","-"," ","f","i","l","e"," ","a","p","p","e","a","r","s"," ","t","o"," ","b","e"," ","p","a","s","s","w","o","r","d","-","p","r","o","t","e","c","t","e","d","]">>
PDF_FAILED_PREFIX == <<"[","P","D","F"," ","u","p","l","o","a","d","e","d"," ","-"," ","e","x","t","r","a","c","t","i","o","n"," ","f","a","i","l","e","d",":"," ">>
CLOSE_BRACKET == <<"]">>
DOCX_PREFIX == <<"D","O","C","X"," ","e","x","t","r","a","c","t","i","o","n"," ","f","a","i","l","e","d",":"," ">>
TXT_PREFIX == <<"T","X","T"," ","e","x","t","r","a","c","t","i","o","n"," ","f","a","i","l","e","d",":"," ">>
PPTX_PREFIX == <<"P","P","T","X"," ","e","x","t","r","a","c","t","i","o","n"," ","f","a","i","l","e","d",":"," ">>
PPTX_BUFFER_PLACEHOLDER == <<"[","P","P","T","X"," ","f","i","l","e"," ","u","p","l","o","a","d","e","d"," ","-"," ","p","r","o","c","e","s","s","i","n","g"," ","n","o","t"," ","a","v","a","i","l","a","b","l","e"," ","i","n"," ","s","e","r","v","e","r","l","e","s","s"," ","e","n","v","i","r","o","n","m","e","n","t","]">>
IMG_UNAVAILABLE == <<"[","I","m","a","g","e"," ","u","p","l","o","a","d","e","d"," ","-"," ","O","C","R"," ","p","r","o","c","e","s","s","i","n","g"," ","n","o","t"," ","a","v","a","i","l","a","b","l","e"," ","i","n"," ","s","e","r","v","e","r","l","e","s","s"," ","e","n","v","i","r","o","n","m","e","n","t","."," ","P","l","e","a","s","e"," ","d","e","s","c","r","i","b","e"," ","t","h","e"," ","i","m","a","g","e"," ","c","o","n","t","e","n","t"," ","m","a","n","u","a","l","l","y",".","]">>
IMG_NO_TEXT == <<"[","I","m","a","g","e"," ","p","r","o","c","e","s","s","e","d"," ","-"," ","n","o"," ","t","e","x","t"," ","d","e","t","e","c","t","e","d","]">>
IMG_WASM == <<"[","I","m","a","g","e"," ","u","p","l","o","a","d","e","d"," ","-"," ","O","C","R"," ","f","a","i","l","e","d"," ","d","u","e"," ","t","o"," ","W","e","b","A","s","s","e","m","b","l","y"," ","l","i","m","i","t","a","t","i","o","n","s"," ","i","n"," ","s","e","r","v","e","r","l","e","s","s"," ","e","n","v","i","r","o","n","m","e","n","t","]">>
IMG_TIMED_OUT == <<"[","I","m","a","g","e"," ","u","p","l","o","a","d","e","d"," ","-"," ","O","C","R"," ","t","i","m","e","d"," ","o","u","t"," ","i","n"," ","s","e","r","v","e","r","l","e","s","s"," ","e","n","v","i","r","o","n","m","e","n","t","]">>
IMG_MEMORY == <<"[","I","m","a","g","e"," ","u","p","l","o","a","d","e","d"," ","-"," ","O","C","R"," ","f","a","i","l","e","d"," ","d","u","e"," ","t","o"," ","m","e","m","o","r","y"," ","l","i","m","i","t","s","]">>
IMG_FAILED_PREFIX == <<"[","I","m","a","g","e"," ","u","p","l","o","a","d","e","d"," ","-"," ","O","C","R"," ","f","a","i","l","e","d",":"," ">>
N_timeout == <<"t","i","m","e","o","u","t">>
N_time == <<"t","i","m","e">>
N_memory == <<"m","e","m","o","r","y">>
N_Memory == <<"M","e","m","o","r","y">>
N_heap == <<"h","e","a","p">>
N_encrypted == <<"e","n","c","r","y","p","t","e","d">>
N_password == <<"p","a","s","s","w","o","r","d">>
N_WebAssembly == <<"W","e","b","A","s","s","e","m","b","l","y">>
N_wasm == <<"w","a","s","m">>
STR_undefined == <<"u","n","d","e","f","i","n","e","d">>
TE_includes == <<"C","a","n","n","o","t"," ","r","e","a","d"," ","p","r","o","p","e","r","t","i","e","s"," ","o","f"," ","u","n","d","e","f","i","n","e","d"," ","(","r","e","a","d","i","n","g"," ","'","i","n","c","l","u","d","e","s","'",")">>
TE_length == <<"C","a","n","n","o","t"," ","r","e","a","d"," ","p","r","o","p","e","r","t","i","e","s"," ","o","f"," ","u","n","d","e","f","i","n","e","d"," ","(","r","e","a","d","i","n","g"," ","'","l","e","n","g","t","h","'",")">>
TE_text == <<"C","a","n","n","o","t"," ","r","e","a","d"," ","p","r","o","p","e","r","t","i","e","s"," ","o","f"," ","u","n","d","e","f","i","n","e","d"," ","(","r","e","a","d","i","n","g"," ","'","t","e","x","t","'",")">>
TE_value == <<"C","a","n","n","o","t"," ","r","e","a","d"," ","p","r","o","p","e","r","t","i","e","s"," ","o","f"," ","u","n","d","e","f","i","n","e","d"," ","(","r","e","a","d","i","n","g"," ","'","v","a","l","u","e","'",")">>
TE_fn == <<"f","n"," ","i","s"," ","n","o","t"," ","a"," ","f","u","n","c","t","i","o","n">>
NEWLINE == <<"\n">>
M_timeout == <<"t","i","m","e","o","u","t">>
M_Timeout == <<"T","i","m","e","o","u","t">>
M_TIMEOUT == <<"T","I","M","E","O","U","T">>
M_runtime == <<"r","u","n","t","i","m","e">>
M_heap == <<"h","e","a","p">>
M_Memory == <<"M","e","m","o","r","y">>
M_password == <<"p","a","s","s","w","o","r","d">>
M_wasm_timeout == <<"w","a","s","m"," ","t","i","m","e","o","u","t">>
M_bad_xref == <<"b","a","d"," ","X","R","e","f">>
M_ENOENT == <<"E","N","O","E","N","T">>
M_empty == <<>>
T_empty == <<>>
T_hello == <<"h","e","l","l","o">>
T_blank == <<" ","\n">>
T_title == <<" ","T","i","t","l","e"," ">>
T_body == <<"B","o","d","y">>

(* --------------------------- bounds ----------------------------------- *)
\* largest number of slides a parsed presentation carries
MaxSlides == 2
\* number of extraction calls the caller makes
MaxCalls == 2

(* ------------------------ string operations --------------------------- *)
\* String.prototype.includes
Includes(s, n) ==
  \E i \in 0..(Len(s) - Len(n)) : SubSeq(s, i + 1, i + Len(n)) = n

IsWhitespace(c) == c \in {" ", "\n", "\t"}

\* String.prototype.trim
Trim(s) ==
  LET keep == {i \in 1..Len(s) : ~IsWhitespace(s[i])}
  IN  IF keep = {} THEN <<>>
      ELSE SubSeq(s, CHOOSE i \in keep : \A j \in keep : i <= j,
                     CHOOSE i \in keep : \A j \in keep : i >= j)

(* --------------------------- thrown values ----------------------------- *)
\* A thrown value is an Error object carrying a message, or a primitive
\* string (tesseract.js rejects with plain strings), which has no message.
JsError(m) == [type |-> "Error", text |-> m]
JsString(s) == [type |-> "string", text |-> s]
NoError == [type |-> "none", text |-> <<>>]

HasMessage(e) == e.type = "Error"

\* `${error.message}`
TemplateMessage(e) == IF HasMessage(e) THEN e.text ELSE STR_undefined

(* ---------------------------- completions ------------------------------ *)
Pending == [kind |-> "pending", value |-> <<>>, thrown |-> "none"]
Resolve(v) == [kind |-> "resolved", value |-> v, thrown |-> "none"]
Reject(e) == [kind |-> "rejected", value |-> e.text, thrown |-> e.type]

(* ------------------------------ inputs --------------------------------- *)
BytesPerMB == 1024 * 1024
MaxPdfMB == 50

Sizes == {0, 1, MaxPdfMB * BytesPerMB - 1, MaxPdfMB * BytesPerMB,
          MaxPdfMB * BytesPerMB + 1, 60 * BytesPerMB}

Texts == {T_empty, T_hello, T_blank, T_title}

RecognizedMimeTypes ==
  {MIME_PDF, MIME_DOCX, MIME_TXT, MIME_PPTX,
   MIME_JPEG, MIME_PNG, MIME_GIF, MIME_WEBP}

MimeTypes == RecognizedMimeTypes \cup {MIME_ZIP, MIME_BMP, MIME_PDF_UPPER}

Inputs ==
  {[isBuffer |-> TRUE, length |-> n, text |-> t] : n \in Sizes, t \in Texts}
    \cup {[isBuffer |-> FALSE, length |-> 0, text |-> <<>>]}

Messages == {M_timeout, M_Timeout, M_TIMEOUT, M_runtime, M_heap, M_Memory,
             M_password, M_wasm_timeout, M_bad_xref, M_empty}

\* what a parsing or OCR library can throw or reject with
Thrown == {JsError(m) : m \in Messages} \cup {JsString(M_timeout)}

\* what fs.readFileSync can throw
ReadThrown == {JsError(M_ENOENT), JsError(M_timeout)}

EnvValues == {"unset", "", "1"}
Truthy(v) == v \notin {"unset", ""}
NoEnv == [VERCEL |-> "unset", LAMBDA_TASK_ROOT |-> "unset", USER |-> "unset"]
Envs == [VERCEL : EnvValues, LAMBDA_TASK_ROOT : EnvValues, USER : EnvValues]

(* ------------------------------- state --------------------------------- *)
VARIABLES
  calls,            \* calls made so far
  pc,               \* position of the call
  mimeType, input,  \* arguments of extractTextFromFile
  adapters,         \* adapters the dispatcher has called, in order
  tryOut,           \* completion of the dispatcher's try body
  completion,       \* completion of extractTextFromFile
  caught,           \* value bound by the adapter's catch clause
  failedAt,         \* capability whose failure was caught
  dataBufferLength, \* length of the materialized PDF buffer, -1 before
  pdfShape,         \* capability shape found on the imported module
  pdfImports, parserInvocations, parsersConstructed, destroyCalls,
  pdfResult,        \* value getText resolved to
  env,              \* process.env as read by the probe
  probed,           \* the probe has run in this call
  worker,           \* the worker variable is assigned
  createCalls, workersCreated, recognizeCalls, terminateCalls,
  terminateOutcome, \* "none", "ok" or "threw"
  pendingOut        \* completion decided by try/catch, held during finally

callVars == <<mimeType, input>>
pdfVars == <<dataBufferLength, pdfShape, pdfImports, parserInvocations,
             parsersConstructed, destroyCalls, pdfResult>>
imgVars == <<env, probed, worker, createCalls, workersCreated, recognizeCalls,
             terminateCalls, terminateOutcome, pendingOut>>
vars == <<calls, pc, callVars, adapters, tryOut, completion, caught, failedAt,
          pdfVars, imgVars>>

NoResult == [kind |-> "null", text |-> <<>>]

\* the state at the start of a call
Fresh ==
  /\ adapters = <<>>
  /\ tryOut = Pending
  /\ completion = Pending
  /\ caught = NoError
  /\ failedAt = "none"
  /\ dataBufferLength = -1
  /\ pdfShape = "unknown"
  /\ pdfImports = 0
  /\ parserInvocations = 0
  /\ parsersConstructed = 0
  /\ destroyCalls = 0
  /\ pdfResult = NoResult
  /\ env = NoEnv
  /\ probed = FALSE
  /\ worker = FALSE
  /\ createCalls = 0
  /\ workersCreated = 0
  /\ recognizeCalls = 0
  /\ terminateCalls = 0
  /\ terminateOutcome = "none"
  /\ pendingOut = Pending

\* the same values, set for the next call
Refresh ==
  /\ adapters' = <<>>
  /\ tryOut' = Pending
  /\ completion' = Pending
  /\ caught' = NoError
  /\ failedAt' = "none"
  /\ dataBufferLength' = -1
  /\ pdfShape' = "unknown"
  /\ pdfImports' = 0
  /\ parserInvocations' = 0
  /\ parsersConstructed' = 0
  /\ destroyCalls' = 0
  /\ pdfResult' = NoResult
  /\ env' = NoEnv
  /\ probed' = FALSE
  /\ worker' = FALSE
  /\ createCalls' = 0
  /\ workersCreated' = 0
  /\ recognizeCalls' = 0
  /\ terminateCalls' = 0
  /\ terminateOutcome' = "none"
  /\ pendingOut' = Pending

\* no call is in progress
NoInput == [isBuffer |-> FALSE, length |-> 0, text |-> <<>>]

Init ==
  /\ calls = 0
  /\ pc = "idle"
  /\ mimeType = <<>>
  /\ input = NoInput
  /\ Fresh

(* ----------------------------- dispatcher ------------------------------ *)
\* the switch with the image/webp label left out
AdapterFor_NoWebp(m) ==
  CASE m = MIME_PDF -> "pdf"
    [] m = MIME_DOCX -> "docx"
    [] m = MIME_TXT -> "txt"
    [] m = MIME_PPTX -> "pptx"
    [] m \in {MIME_JPEG, MIME_PNG, MIME_GIF} -> "image"
    [] OTHER -> "none"

\* the switch of extractTextFromFile; "none" is the default branch
AdapterFor(m) ==
  CASE m = MIME_PDF -> "pdf"
    [] m = MIME_DOCX -> "docx"
    [] m = MIME_TXT -> "txt"
    [] m = MIME_PPTX -> "pptx"
    [] m \in {MIME_JPEG, MIME_PNG, MIME_GIF, MIME_WEBP} -> "image"
    [] OTHER -> "none"

\* a call of extractTextFromFile(input, mimeType): the switch calls the
\* adapter, or its default branch throws into the catch clause
extractTextFromFile ==
  /\ pc = "idle"
  /\ calls < MaxCalls
  /\ calls' = calls + 1
  /\ \E m \in MimeTypes, in \in Inputs :
       /\ mimeType' = m
       /\ input' = in
       /\ IF AdapterFor(m) = "none"
            THEN /\ tryOut' = Reject(JsError(UNSUPPORTED_MIME_PREFIX \o m))
                 /\ pc' = "outer_settle"
                 /\ UNCHANGED adapters
            ELSE /\ adapters' = Append(adapters, AdapterFor(m))
                 /\ pc' = AdapterFor(m)
                 /\ UNCHANGED tryOut
  /\ UNCHANGED <<completion, caught, failedAt, pdfVars, imgVars>>

\* `return await adapter(input)` and the catch clause of extractTextFromFile
Outer_Settle ==
  /\ pc = "outer_settle"
  /\ completion' =
       IF tryOut.kind = "resolved" THEN tryOut
       ELSE Reject(JsError(FAILED_PREFIX \o
              TemplateMessage([type |-> tryOut.thrown, text |-> tryOut.value])))
  /\ pc' = "done"
  /\ UNCHANGED <<calls, callVars, adapters, tryOut, caught, failedAt,
                 pdfVars, imgVars>>

\* the call has completed; the caller may make the next, independent call
Return ==
  /\ pc = "done"
  /\ pc' = "idle"
  /\ mimeType' = <<>>
  /\ input' = NoInput
  /\ Refresh
  /\ UNCHANGED calls

(* ------------------------------- TXT ----------------------------------- *)
\* throw new Error(`TXT extraction failed: ${error.message}`)
TXT_Fail(e) == Reject(JsError(TXT_PREFIX \o TemplateMessage(e)))

extractFromTXT ==
  /\ pc = "txt"
  /\ IF input.isBuffer
       THEN /\ tryOut' = Resolve(input.text)
            /\ UNCHANGED <<caught, failedAt>>
       ELSE \/ \E t \in Texts :
                 /\ tryOut' = Resolve(t)
                 /\ UNCHANGED <<caught, failedAt>>
            \/ \E e \in ReadThrown :
                 /\ caught' = e
                 /\ failedAt' = "readFile"
                 /\ tryOut' = TXT_Fail(e)
  /\ pc' = "outer_settle"
  /\ UNCHANGED <<calls, callVars, adapters, completion, pdfVars, imgVars>>

(* ------------------------------- DOCX ---------------------------------- *)
\* a DOCX adapter that degrades to a placeholder instead of throwing
DOCX_Fail_Soft(e) == Resolve(DOCX_PREFIX \o TemplateMessage(e))

\* throw new Error(`DOCX extraction failed: ${error.message}`)
DOCX_Fail(e) == Reject(JsError(DOCX_PREFIX \o TemplateMessage(e)))

\* mammoth.extractRawText({arrayBuffer}) or ({path}) is called and awaited
extractFromDOCX ==
  /\ pc = "docx"
  /\ pc' = "docx_await"
  /\ UNCHANGED <<calls, callVars, adapters, tryOut, completion, caught, failedAt,
                 pdfVars, imgVars>>

\* results of mammoth: an object with a value, or no object at all
DocxResults == {[kind |-> "obj", text |-> t] : t \in Texts} \cup {NoResult}

DOCX_Settle ==
  /\ pc = "docx_await"
  /\ \/ \E r \in DocxResults :
          IF r.kind = "obj"
            THEN /\ tryOut' = Resolve(r.text)
                 /\ UNCHANGED <<caught, failedAt>>
            ELSE /\ caught' = JsError(TE_value)
                 /\ failedAt' = "result"
                 /\ tryOut' = DOCX_Fail(JsError(TE_value))
     \/ \E e \in Thrown :
          /\ caught' = e
          /\ failedAt' = "mammoth"
          /\ tryOut' = DOCX_Fail(e)
  /\ pc' = "outer_settle"
  /\ UNCHANGED <<calls, callVars, adapters, completion, pdfVars, imgVars>>

(* ------------------------------- PPTX ---------------------------------- *)
\* throw new Error(`PPTX extraction failed: ${error.message}`)
PPTX_Fail(e) == Reject(JsError(PPTX_PREFIX \o TemplateMessage(e)))

\* a slide is an object with or without a text field
Slides == {[hasText |-> TRUE, text |-> t] : t \in {T_empty, T_title, T_body}}
            \cup {[hasText |-> FALSE, text |-> <<>>]}

SlideSeqs == UNION {[1..n -> Slides] : n \in 0..MaxSlides}

\* the parsed presentation: with a slides array, or without one
Presentations ==
  {[hasSlides |-> TRUE, slides |-> s] : s \in SlideSeqs}
    \cup {[hasSlides |-> FALSE, slides |-> <<>>]}

\* the forEach over pptx.slides
RECURSIVE SlidesText(_)
SlidesText(slides) ==
  IF slides = <<>> THEN <<>>
  ELSE LET slide == Head(slides)
       IN  (IF slide.hasText /\ slide.text # <<>>
              THEN slide.text \o NEWLINE ELSE <<>>)
             \o SlidesText(Tail(slides))

PPTX_Text(pptx) ==
  Trim(IF pptx.hasSlides THEN SlidesText(pptx.slides) ELSE <<>>)

extractFromPPTX ==
  /\ pc = "pptx"
  /\ IF input.isBuffer
       THEN /\ tryOut' = Resolve(PPTX_BUFFER_PLACEHOLDER)
            /\ pc' = "outer_settle"
       ELSE \/ \E p \in Presentations :
                 /\ tryOut' = Resolve(PPTX_Text(p))
                 /\ pc' = "outer_settle"
            \/ \* new PPTX2Json(input) throws: import('pptx2json') is awaited
               /\ pc' = "pptx_import_await"
               /\ UNCHANGED tryOut
  /\ UNCHANGED <<calls, callVars, adapters, completion, caught, failedAt,
                 pdfVars, imgVars>>

PPTX_ImportSettle ==
  /\ pc = "pptx_import_await"
  /\ \/ \* mod?.default ?? mod is a function: it is called and awaited
        /\ pc' = "pptx_fn_await"
        /\ UNCHANGED <<tryOut, caught, failedAt>>
     \/ \* it is not callable
        /\ caught' = JsError(TE_fn)
        /\ failedAt' = "pptxFallback"
        /\ tryOut' = PPTX_Fail(JsError(TE_fn))
        /\ pc' = "outer_settle"
     \/ \E e \in Thrown :
          /\ caught' = e
          /\ failedAt' = "pptxImport"
          /\ tryOut' = PPTX_Fail(e)
          /\ pc' = "outer_settle"
  /\ UNCHANGED <<calls, callVars, adapters, completion, pdfVars, imgVars>>

PPTX_FnSettle ==
  /\ pc = "pptx_fn_await"
  /\ \/ \E p \in Presentations :
          /\ tryOut' = Resolve(PPTX_Text(p))
          /\ UNCHANGED <<caught, failedAt>>
     \/ \E e \in Thrown :
          /\ caught' = e
          /\ failedAt' = "pptxFallback"
          /\ tryOut' = PPTX_Fail(e)
  /\ pc' = "outer_settle"
  /\ UNCHANGED <<calls, callVars, adapters, completion, pdfVars, imgVars>>

(* -------------------------------- PDF ---------------------------------- *)
\* a size guard that compares against 500 instead of 50
SizeGuardExceeded_500(len) == len > 500 * BytesPerMB

\* bufferSizeMB > 50, with bufferSizeMB = length / (1024 * 1024); the
\* division by a power of two is exact, so the test is on the byte count
SizeGuardExceeded(len) == len > MaxPdfMB * BytesPerMB

\* the if/else chain of the catch clause of extractFromPDF
ClassifyPDF(m) ==
  IF Includes(m, N_timeout) \/ Includes(m, N_time) THEN PDF_TIMED_OUT
  ELSE IF Includes(m, N_memory) \/ Includes(m, N_Memory) \/ Includes(m, N_heap)
    THEN PDF_MEMORY
  ELSE IF Includes(m, N_encrypted) \/ Includes(m, N_password)
    THEN PDF_PASSWORD
  ELSE PDF_FAILED_PREFIX \o m \o CLOSE_BRACKET

\* the catch clause: error.message.includes throws a TypeError when the
\* caught value has no message, and the call then rejects
PDF_CatchOut(e) ==
  IF HasMessage(e) THEN Resolve(ClassifyPDF(e.text))
  ELSE Reject(JsError(TE_includes))

\* return text || '[PDF processed - no text content found]'
PDF_Return(text) == Resolve(IF text # <<>> THEN text ELSE PDF_NO_TEXT)

\* what a parser resolves to: {text}, a bare string, {text: undefined},
\* an object without text, or null
PdfResults ==
  {[kind |-> k, text |-> t] : k \in {"obj", "str"}, t \in Texts}
    \cup {[kind |-> k, text |-> <<>>] : k \in {"objTextUndef", "objNoText", "null"}}

\* result?.text || ''
ClassText(r) == IF r.kind = "obj" THEN r.text ELSE <<>>

\* ('text' in result) ? result.text : (typeof result === 'string' ? result : '')
FnText(r) == IF r.kind \in {"obj", "str"} THEN r.text ELSE <<>>

PDF_Caught(e, at) ==
  /\ caught' = e
  /\ failedAt' = at
  /\ tryOut' = PDF_CatchOut(e)
  /\ pc' = "outer_settle"

extractFromPDF ==
  /\ pc = "pdf"
  /\ \/ \E len \in (IF input.isBuffer THEN {input.length} ELSE Sizes) :
          /\ dataBufferLength' = len
          /\ IF SizeGuardExceeded(len)
               THEN /\ tryOut' = Resolve(PDF_LARGE)
                    /\ pc' = "outer_settle"
                    /\ UNCHANGED pdfImports
               ELSE /\ pdfImports' = pdfImports + 1
                    /\ pc' = "pdf_import_await"
                    /\ UNCHANGED tryOut
          /\ UNCHANGED <<caught, failedAt>>
     \/ /\ ~input.isBuffer
        /\ \E e \in ReadThrown : PDF_Caught(e, "readFile")
        /\ UNCHANGED <<dataBufferLength, pdfImports>>
  /\ UNCHANGED <<calls, callVars, adapters, completion, pdfShape, parserInvocations,
                 parsersConstructed, destroyCalls, pdfResult, imgVars>>

PDF_ImportSettle ==
  /\ pc = "pdf_import_await"
  /\ \/ \E shape \in {"class", "default", "module", "none"} :
          /\ pdfShape' = shape
          /\ \/ /\ shape = "class"
                /\ \/ \* new mod.PDFParse({data}); parser.getText() is awaited
                      /\ parsersConstructed' = parsersConstructed + 1
                      /\ parserInvocations' = parserInvocations + 1
                      /\ pc' = "pdf_getText_await"
                      /\ UNCHANGED <<tryOut, caught, failedAt>>
                   \/ \* the constructor throws
                      /\ \E e \in Thrown : PDF_Caught(e, "construct")
                      /\ UNCHANGED <<parsersConstructed, parserInvocations>>
             \/ /\ shape \in {"default", "module"}
                /\ parserInvocations' = parserInvocations + 1
                /\ pc' = "pdf_call_await"
                /\ UNCHANGED <<tryOut, caught, failedAt, parsersConstructed>>
             \/ /\ shape = "none"
                /\ PDF_Caught(JsError(PDF_UNSUPPORTED_SHAPE), "shape")
                /\ UNCHANGED <<parsersConstructed, parserInvocations>>
     \/ /\ \E e \in Thrown : PDF_Caught(e, "import")
        /\ UNCHANGED <<pdfShape, parsersConstructed, parserInvocations>>
  /\ UNCHANGED <<calls, callVars, adapters, completion, dataBufferLength, pdfImports,
                 destroyCalls, pdfResult, imgVars>>

\* const result = await parser.getText(); then parser.destroy() is awaited
PDF_GetTextSettle ==
  /\ pc = "pdf_getText_await"
  /\ \/ \E r \in PdfResults :
          /\ pdfResult' = r
          /\ destroyCalls' = destroyCalls + 1
          /\ pc' = "pdf_destroy_await"
          /\ UNCHANGED <<tryOut, caught, failedAt>>
     \/ /\ \E e \in Thrown : PDF_Caught(e, "getText")
        /\ UNCHANGED <<pdfResult, destroyCalls>>
  /\ UNCHANGED <<calls, callVars, adapters, completion, dataBufferLength, pdfShape,
                 pdfImports, parserInvocations, parsersConstructed, imgVars>>

PDF_DestroySettle ==
  /\ pc = "pdf_destroy_await"
  /\ \/ /\ tryOut' = PDF_Return(ClassText(pdfResult))
        /\ pc' = "outer_settle"
        /\ UNCHANGED <<caught, failedAt>>
     \/ \E e \in Thrown : PDF_Caught(e, "destroy")
  /\ UNCHANGED <<calls, callVars, adapters, completion, pdfVars, imgVars>>

\* await mod.default(dataBuffer) or await mod(dataBuffer)
PDF_CallSettle ==
  /\ pc = "pdf_call_await"
  /\ \/ \E r \in PdfResults :
          /\ pdfResult' = r
          /\ IF r.kind = "objTextUndef"
               THEN \* text.length on undefined
                    PDF_Caught(JsError(TE_length), "result")
               ELSE /\ tryOut' = PDF_Return(FnText(r))
                    /\ pc' = "outer_settle"
                    /\ UNCHANGED <<caught, failedAt>>
     \/ /\ \E e \in Thrown : PDF_Caught(e, "parse")
        /\ UNCHANGED pdfResult
  /\ UNCHANGED <<calls, callVars, adapters, completion, dataBufferLength, pdfShape,
                 pdfImports, parserInvocations, parsersConstructed,
                 destroyCalls, imgVars>>

(* ------------------------------- image --------------------------------- *)
\* a probe that leaves out the !process.env.USER operand
isServerless_NoUser(e) == Truthy(e.VERCEL) \/ Truthy(e.LAMBDA_TASK_ROOT)

\* process.env.VERCEL || process.env.LAMBDA_TASK_ROOT || !process.env.USER
isServerless(e) ==
  Truthy(e.VERCEL) \/ Truthy(e.LAMBDA_TASK_ROOT) \/ ~Truthy(e.USER)

\* the if/else chain of the catch clause of extractFromImage
ClassifyImage(m) ==
  IF Includes(m, N_WebAssembly) \/ Includes(m, N_wasm) THEN IMG_WASM
  ELSE IF Includes(m, N_timeout) \/ Includes(m, N_time) THEN IMG_TIMED_OUT
  ELSE IF Includes(m, N_memory) \/ Includes(m, N_Memory) THEN IMG_MEMORY
  ELSE IMG_FAILED_PREFIX \o m \o CLOSE_BRACKET

IMG_CatchOut(e) ==
  IF HasMessage(e) THEN Resolve(ClassifyImage(e.text))
  ELSE Reject(JsError(TE_includes))

\* a finally block that never calls terminate()
IMG_Finally_NoTerminate(w, out) ==
  /\ tryOut' = out
  /\ pc' = "outer_settle"
  /\ UNCHANGED <<terminateCalls, pendingOut>>

\* the finally block entered with completion out: a worker that was
\* assigned has terminate() called and awaited
IMG_Finally(w, out) ==
  IF w THEN /\ terminateCalls' = terminateCalls + 1
            /\ pendingOut' = out
            /\ pc' = "img_terminate_await"
            /\ UNCHANGED tryOut
       ELSE /\ tryOut' = out
            /\ pc' = "outer_settle"
            /\ UNCHANGED <<terminateCalls, pendingOut>>

extractFromImage ==
  /\ pc = "image"
  /\ \E e \in Envs :
       /\ env' = e
       /\ probed' = TRUE
       /\ IF isServerless(e)
            THEN /\ IMG_Finally(FALSE, Resolve(IMG_UNAVAILABLE))
                 /\ UNCHANGED createCalls
            ELSE \* createWorker('eng', 1, ...) is awaited
                 /\ createCalls' = createCalls + 1
                 /\ pc' = "img_create_await"
                 /\ UNCHANGED <<tryOut, terminateCalls, pendingOut>>
  /\ UNCHANGED <<calls, callVars, adapters, completion, caught, failedAt, pdfVars,
                 worker, workersCreated, recognizeCalls, terminateOutcome>>

IMG_CreateSettle ==
  /\ pc = "img_create_await"
  /\ \/ \* worker.recognize(input) is awaited
        /\ worker' = TRUE
        /\ workersCreated' = workersCreated + 1
        /\ recognizeCalls' = recognizeCalls + 1
        /\ pc' = "img_recognize_await"
        /\ UNCHANGED <<tryOut, caught, failedAt, terminateCalls, pendingOut>>
     \/ \E e \in Thrown :
          /\ caught' = e
          /\ failedAt' = "createWorker"
          /\ IMG_Finally(worker, IMG_CatchOut(e))
          /\ UNCHANGED <<worker, workersCreated, recognizeCalls>>
  /\ UNCHANGED <<calls, callVars, adapters, completion, pdfVars, env, probed,
                 createCalls, terminateOutcome>>

\* what recognize resolves to: {data: {text}} or an object without data
OcrResults == {[kind |-> "obj", text |-> t] : t \in Texts} \cup {NoResult}

IMG_RecognizeSettle ==
  /\ pc = "img_recognize_await"
  /\ \/ \E r \in OcrResults :
          IF r.kind = "obj"
            THEN /\ IMG_Finally(worker,
                      Resolve(IF Trim(r.text) # <<>> THEN Trim(r.text)
                              ELSE IMG_NO_TEXT))
                 /\ UNCHANGED <<caught, failedAt>>
            ELSE /\ caught' = JsError(TE_text)
                 /\ failedAt' = "result"
                 /\ IMG_Finally(worker, IMG_CatchOut(JsError(TE_text)))
     \/ \E e \in Thrown :
          /\ caught' = e
          /\ failedAt' = "recognize"
          /\ IMG_Finally(worker, IMG_CatchOut(e))
  /\ UNCHANGED <<calls, callVars, adapters, completion, pdfVars, env, probed, worker,
                 createCalls, workersCreated, recognizeCalls, terminateOutcome>>

\* a finally block without the inner try/catch: a terminate() failure
\* replaces the completion of the call
IMG_TerminateSettle_Rethrow ==
  /\ pc = "img_terminate_await"
  /\ \E o \in {"ok", "threw"} :
       /\ terminateOutcome' = o
       /\ tryOut' = IF o = "ok" THEN pendingOut ELSE Reject(JsError(M_bad_xref))
  /\ pc' = "outer_settle"
  /\ UNCHANGED <<calls, callVars, adapters, completion, caught, failedAt,
                 pdfVars, env, probed, worker, createCalls, workersCreated,
                 recognizeCalls, terminateCalls, pendingOut>>

\* await worker.terminate() inside try/catch: a failure is only logged
IMG_TerminateSettle ==
  /\ pc = "img_terminate_await"
  /\ \E o \in {"ok", "threw"} : terminateOutcome' = o
  /\ tryOut' = pendingOut
  /\ pc' = "outer_settle"
  /\ UNCHANGED <<calls, callVars, adapters, completion, caught, failedAt, pdfVars,
                 env, probed, worker, createCalls, workersCreated,
                 recognizeCalls, terminateCalls, pendingOut>>

(* --------------------------- specification ----------------------------- *)
Next ==
  \/ extractTextFromFile
  \/ extractFromTXT
  \/ extractFromDOCX \/ DOCX_Settle
  \/ extractFromPPTX \/ PPTX_ImportSettle \/ PPTX_FnSettle
  \/ extractFromPDF \/ PDF_ImportSettle \/ PDF_GetTextSettle
  \/ PDF_DestroySettle \/ PDF_CallSettle
  \/ extractFromImage \/ IMG_CreateSettle \/ IMG_RecognizeSettle
  \/ IMG_TerminateSettle
  \/ Outer_Settle
  \/ Return

Spec == Init /\ [][Next]_vars

(* ------------------------------ properties ----------------------------- *)
\* extractTextFromFile has completed
Done == pc = "done"

\* the adapter has returned to the dispatcher
AdapterReturned == pc \in {"outer_settle", "done"}

\* C1: every OCR worker created by extractFromImage has terminate() called
\* exactly once before the call returns, whether recognition gives text,
\* gives empty text or throws; never twice, never left out.
C1_WorkerTerminatedOnce ==
  /\ terminateCalls <= workersCreated
  /\ AdapterReturned => terminateCalls = workersCreated

\* a call in which recognition threw has created and terminated its worker
C1_Witness ==
  Done /\ workersCreated = 1 /\ terminateCalls = 1 /\ failedAt = "recognize"

\* C2: a materialized PDF buffer above 50 MB gives the large-PDF placeholder
\* and pdf-parse is neither imported nor invoked; whenever it is imported or
\* invoked, the buffer was at most 50 MB.
C2_SizeGuardBeforeParser ==
  /\ (pdfImports > 0 \/ parserInvocations > 0 \/ parsersConstructed > 0)
       => (dataBufferLength >= 0 /\ dataBufferLength <= 50 * 1024 * 1024)
  /\ dataBufferLength > 50 * 1024 * 1024
       => /\ pdfImports = 0 /\ parserInvocations = 0 /\ parsersConstructed = 0
          /\ AdapterReturned => tryOut = Resolve(PDF_LARGE)
          /\ Done => completion = Resolve(PDF_LARGE)

\* a 60 MB PDF buffer has been answered with the placeholder
C2_Witness ==
  /\ Done /\ mimeType = MIME_PDF /\ input.isBuffer
  /\ dataBufferLength = 60 * 1024 * 1024
  /\ completion = Resolve(PDF_LARGE)

\* C3: when the imported PDF module matches none of the three capability
\* shapes, extractTextFromFile rejects with the unsupported-shape error and
\* does not resolve to a placeholder.
C3_UnsupportedShapeRejects ==
  (Done /\ pdfShape = "none")
    => /\ completion.kind = "rejected"
       /\ Includes(completion.value, PDF_UNSUPPORTED_SHAPE)

\* C4: for the class-based shape, every parser constructed has destroy()
\* called before extractFromPDF returns, also when getText throws.
C4_ParserDestroyed ==
  AdapterReturned => destroyCalls = parsersConstructed

\* toLowerCase on the letters
UpperCase == <<"A","B","C","D","E","F","G","H","I","J","K","L","M",
               "N","O","P","Q","R","S","T","U","V","W","X","Y","Z">>
LowerCase == <<"a","b","c","d","e","f","g","h","i","j","k","l","m",
               "n","o","p","q","r","s","t","u","v","w","x","y","z">>
ToLowerCase(s) ==
  [i \in 1..Len(s) |->
     IF \E k \in 1..26 : UpperCase[k] = s[i]
       THEN LowerCase[CHOOSE k \in 1..26 : UpperCase[k] = s[i]]
       ELSE s[i]]

\* C5: a PDF parser or OCR failure whose message contains "timeout" in any
\* letter case gives the timeout placeholder, not the generic one.
C5_TimeoutAnyCase ==
  (Done /\ failedAt \in {"getText", "parse", "createWorker", "recognize"}
     /\ HasMessage(caught) /\ Includes(ToLowerCase(caught.text), N_timeout))
    => completion = Resolve(IF AdapterFor(mimeType) = "pdf"
                              THEN PDF_TIMED_OUT ELSE IMG_TIMED_OUT)

\* the placeholder strings a soft failure may resolve to
IsFailurePlaceholder(v) ==
  \/ v \in {PDF_TIMED_OUT, PDF_MEMORY, PDF_PASSWORD,
            IMG_WASM, IMG_TIMED_OUT, IMG_MEMORY}
  \/ /\ Len(v) > Len(PDF_FAILED_PREFIX)
     /\ SubSeq(v, 1, Len(PDF_FAILED_PREFIX)) = PDF_FAILED_PREFIX
     /\ v[Len(v)] = "]"
  \/ /\ Len(v) > Len(IMG_FAILED_PREFIX)
     /\ SubSeq(v, 1, Len(IMG_FAILED_PREFIX)) = IMG_FAILED_PREFIX
     /\ v[Len(v)] = "]"

\* C6: whatever value the PDF parser call, the PDF file read, the OCR worker
\* creation or the recognition throws, the call resolves to one of the
\* placeholder strings and never rejects.
C6_SoftFailuresNeverReject ==
  (Done /\ AdapterFor(mimeType) \in {"pdf", "image"}
     /\ failedAt \in {"readFile", "getText", "parse", "createWorker",
                      "recognize"})
    => /\ completion.kind = "resolved"
       /\ IsFailurePlaceholder(completion.value)

\* the format prefix each hard failure carries
FormatPrefix(m) ==
  CASE m = MIME_DOCX -> DOCX_PREFIX
    [] m = MIME_TXT -> TXT_PREFIX
    [] m = MIME_PPTX -> PPTX_PREFIX

\* C7: a failure of mammoth.extractRawText, of the TXT file read, or of both
\* the PPTX constructor and its fallback makes extractTextFromFile reject
\* with a message containing the format prefix followed by the underlying
\* message; the call never resolves to a string.
C7_HardFailures ==
  (Done /\ mimeType \in {MIME_DOCX, MIME_TXT, MIME_PPTX} /\ failedAt # "none")
    => /\ completion.kind = "rejected"
       /\ Includes(completion.value,
                   FormatPrefix(mimeType) \o TemplateMessage(caught))

\* the PPTX constructor threw and the fallback function threw too
C7_Witness ==
  /\ Done /\ mimeType = MIME_PPTX /\ failedAt = "pptxFallback"
  /\ caught = JsError(M_bad_xref)
  /\ completion.kind = "rejected"

\* the routing table of the external interface
RoutingTable(m) ==
  CASE m = MIME_PDF -> "pdf"
    [] m = MIME_DOCX -> "docx"
    [] m = MIME_TXT -> "txt"
    [] m = MIME_PPTX -> "pptx"
    [] m = MIME_JPEG -> "image"
    [] m = MIME_PNG -> "image"
    [] m = MIME_GIF -> "image"
    [] m = MIME_WEBP -> "image"

NoAdapterWork ==
  /\ dataBufferLength = -1 /\ pdfImports = 0 /\ parserInvocations = 0
  /\ ~probed /\ createCalls = 0 /\ workersCreated = 0
  /\ failedAt = "none"

\* C8: a mimeType outside the recognized set makes extractTextFromFile
\* reject with a message containing "Unsupported MIME type: " followed by
\* that exact string, and no adapter is called; a mimeType inside the set
\* has exactly the adapter of the routing table called.
C8_MimeRouting ==
  pc # "idle" =>
    IF mimeType \in RecognizedMimeTypes
      THEN adapters = <<RoutingTable(mimeType)>>
      ELSE /\ adapters = <<>>
           /\ NoAdapterWork
           /\ Done => /\ completion.kind = "rejected"
                      /\ Includes(completion.value,
                                  UNSUPPORTED_MIME_PREFIX \o mimeType)

\* application/zip has been rejected
C8_Witness ==
  Done /\ mimeType = MIME_ZIP /\ completion.kind = "rejected"

\* C9: when the probe judges the context constrained (VERCEL or
\* LAMBDA_TASK_ROOT holding a value, or USER holding none), extractFromImage
\* returns the OCR-unavailable placeholder and no worker is created,
\* recognized with or terminated; a worker exists only where the probe
\* judged the context suitable.
C9_ConstrainedEnvNoWorker ==
  /\ (probed /\ (Truthy(env.VERCEL) \/ Truthy(env.LAMBDA_TASK_ROOT)
                   \/ ~Truthy(env.USER)))
       => /\ createCalls = 0 /\ workersCreated = 0
          /\ recognizeCalls = 0 /\ terminateCalls = 0
          /\ AdapterReturned => tryOut = Resolve(IMG_UNAVAILABLE)
          /\ Done => completion = Resolve(IMG_UNAVAILABLE)
  /\ (createCalls > 0 \/ workersCreated > 0)
       => /\ probed
          /\ ~Truthy(env.VERCEL) /\ ~Truthy(env.LAMBDA_TASK_ROOT)
          /\ Truthy(env.USER)

\* an image call under VERCEL has been answered with the placeholder
C9_Witness ==
  /\ Done /\ mimeType = MIME_PNG /\ probed /\ env.VERCEL = "1"
  /\ env.USER = "1"
  /\ completion = Resolve(IMG_UNAVAILABLE)

\* C10: a failure of worker.terminate() never changes the outcome: the call
\* completes with what the try/catch had decided (text, empty-text
\* placeholder or failure placeholder), as it does when terminate succeeds.
C10_TeardownFailureIgnored ==
  terminateOutcome # "none"
    => /\ tryOut = pendingOut
       /\ (Done /\ pendingOut.kind = "resolved") => completion = pendingOut
       /\ (Done /\ pendingOut.kind = "rejected")
            => completion = Reject(JsError(FAILED_PREFIX \o pendingOut.value))

\* terminate threw after a recognition that gave text
C10_Witness ==
  /\ Done /\ terminateOutcome = "threw" /\ failedAt = "none"
  /\ completion = Resolve(T_hello)
============================================================================
